---- MODULE Spec2Model ----
(***************************************************************************)
(* Model of sso_pipeline.py: merge_sso_with_collection_system, the merge   *)
(* of the sewer_overflow_bypass_event table with collection_system_permit  *)
(* and the per-permit/year summary.                                        *)
(*                                                                         *)
(* A table (pandas DataFrame) is a record [cols, rows]: the set of column  *)
(* names and the sequence of rows, each row a function from cols to cells. *)
(* A cell is Null (NaN/NaT), a text Str(s) with s a sequence of            *)
(* one-character strings, or an integer Num(n).                            *)
(***************************************************************************)
EXTENDS Integers, Sequences, FiniteSets, TLC

\* df_coll, df_sso: the caller's two frames (run_pipeline's df_coll, df_sso),
\*   which merge_sso_with_collection_system writes to in place
\* passed: per call, the two frames as they were passed in
\* returned: per call, what the call returned (or that it raised)
VARIABLES df_coll, df_sso, passed, returned

vars == <<df_coll, df_sso, passed, returned>>

(***************************************************************************)
(* Cells                                                                   *)
(***************************************************************************)
Null == [kind |-> "null", txt |-> <<>>, num |-> 0]

Str(s) == [kind |-> "str", txt |-> s, num |-> 0]

Num(n) == [kind |-> "num", txt |-> <<>>, num |-> n]

IsNull(c) == c.kind = "null"

Whitespace == {" ", "\t"}

DigitChars == <<"0", "1", "2", "3", "4", "5", "6", "7", "8", "9">>

DigitSet == {DigitChars[i] : i \in 1..10}

DigitVal(ch) == (CHOOSE i \in 1..10 : DigitChars[i] = ch) - 1

\* str(n) of a Python int: decimal digits, "-" in front of a negative number
RECURSIVE NatText(_)
NatText(n) ==
    IF n < 10 THEN <<DigitChars[n + 1]>>
    ELSE NatText(n \div 10) \o <<DigitChars[(n % 10) + 1]>>

IntText(n) == IF n < 0 THEN <<"-">> \o NatText(-n) ELSE NatText(n)

\* Series.astype(str): a missing value becomes the text "nan"
AsTypeStr(c) ==
    CASE c.kind = "null" -> <<"n", "a", "n">>
      [] c.kind = "num" -> IntText(c.num)
      [] OTHER -> c.txt

\* str.strip(): leading and trailing whitespace removed
RECURSIVE LStrip(_)
LStrip(s) ==
    IF s = <<>> THEN s
    ELSE IF Head(s) \in Whitespace THEN LStrip(Tail(s)) ELSE s

RECURSIVE RStrip(_)
RStrip(s) ==
    IF s = <<>> THEN s
    ELSE IF s[Len(s)] \in Whitespace THEN RStrip(SubSeq(s, 1, Len(s) - 1)) ELSE s

StrStrip(s) == RStrip(LStrip(s))

UpperChar(ch) ==
    CASE ch = "a" -> "A"
      [] ch = "b" -> "B"
      [] ch = "c" -> "C"
      [] ch = "n" -> "N"
      [] ch = "x" -> "X"
      [] OTHER -> ch

\* str.upper()
StrUpper(s) == [i \in 1..Len(s) |-> UpperChar(s[i])]

\* mutant: the key is trimmed but its case is kept
NormalizeKeepCase(c) == Str(StrStrip(AsTypeStr(c)))

\* frame[col].astype(str).str.strip().str.upper()
Normalize(c) == Str(StrUpper(StrStrip(AsTypeStr(c))))

\* the text of an integer: an optional sign and at least one digit
IsIntText(s) ==
    /\ s # <<>>
    /\ LET body == IF Head(s) = "-" THEN Tail(s) ELSE s
       IN  /\ body # <<>>
           /\ \A i \in 1..Len(body) : body[i] \in DigitSet

RECURSIVE ParseNat(_)
ParseNat(s) ==
    IF s = <<>> THEN 0
    ELSE 10 * ParseNat(SubSeq(s, 1, Len(s) - 1)) + DigitVal(s[Len(s)])

ParseInt(s) == IF Head(s) = "-" THEN -ParseNat(Tail(s)) ELSE ParseNat(s)

\* pd.to_numeric(..., errors="coerce") of one cell: text that is no number
\* becomes NaN
ToNumeric(c) ==
    CASE c.kind = "num" -> c
      [] c.kind = "str" /\ IsIntText(c.txt) -> Num(ParseInt(c.txt))
      [] OTHER -> Null

\* unary minus of a numeric cell; -NaN is NaN
Neg(c) == IF c.kind = "num" THEN Num(-c.num) ELSE c

Ts(n) == [kind |-> "ts", txt |-> <<>>, num |-> n]

\* a timestamp is counted in months: 12 * year + (month - 1)
EPOCH == 12 * 1970

\* the text "YYYY-MM" of a month
IsMonthText(s) ==
    /\ Len(s) = 7
    /\ \A i \in {1, 2, 3, 4, 6, 7} : s[i] \in DigitSet
    /\ s[5] = "-"
    /\ ParseNat(SubSeq(s, 6, 7)) \in 1..12

\* pd.to_datetime(..., errors="coerce") of one cell: text that is no date
\* becomes NaT; a small number is that many nanoseconds after the epoch
ToDatetime(c) ==
    CASE c.kind = "ts" -> c
      [] c.kind = "num" -> Ts(EPOCH)
      [] c.kind = "str" /\ IsMonthText(c.txt) ->
            Ts(12 * ParseNat(SubSeq(c.txt, 1, 4)) + ParseNat(SubSeq(c.txt, 6, 7)) - 1)
      [] OTHER -> Null

\* Series.dt.year: NaT gives NaN
YearOf(c) == IF c.kind = "ts" THEN Num(c.num \div 12) ELSE Null

(***************************************************************************)
(* Tables                                                                  *)
(***************************************************************************)
Table(cols, rows) == [cols |-> cols, rows |-> rows]

NoTable == Table({}, <<>>)

NRows(t) == Len(t.rows)

RowSet(t) == {t.rows[i] : i \in 1..Len(t.rows)}

\* frame[col] = vals, one value per row: the column is added, or overwritten
\* when present
SetColumn(t, col, vals) ==
    Table(t.cols \cup {col},
          [i \in 1..Len(t.rows) |->
              [k \in t.cols \cup {col} |->
                  IF k = col THEN vals[i] ELSE t.rows[i][k]]])

\* frame.drop(columns=cs, errors="ignore")
DropColumns(t, cs) ==
    Table(t.cols \ cs,
          [i \in 1..Len(t.rows) |-> [k \in t.cols \ cs |-> t.rows[i][k]]])

\* pd.to_numeric(df_sso.get(col), errors="coerce"): DataFrame.get gives None
\* for an absent column, which to_numeric turns into the scalar NaN
NumericColumn(t, col, row) ==
    IF col \in t.cols THEN ToNumeric(row[col]) ELSE Null

(***************************************************************************)
(* Coordinate cleanup                                                      *)
(***************************************************************************)
LAT_MIN == 0

LON_LO == 60

LON_HI == 110

\* mask_both: NaN < 0 is False
MaskBoth(lat) == lat.kind = "num" /\ lat.num < LAT_MIN

\* rows with negative latitude: both signs flipped
RuleA(ll) ==
    IF MaskBoth(ll[1]) THEN <<Neg(ll[1]), Neg(ll[2])>> ELSE ll

\* mask_lon_only: latitude.ge(0) & longitude.between(60, 110), both ends
\* inclusive, False on NaN
MaskLonOnly(ll) ==
    /\ ll[1].kind = "num" /\ ll[1].num >= LAT_MIN
    /\ ll[2].kind = "num" /\ ll[2].num >= LON_LO /\ ll[2].num <= LON_HI

\* rows with latitude >= 0 and longitude in the band: longitude flipped
RuleB(ll) ==
    IF MaskLonOnly(ll) THEN <<ll[1], Neg(ll[2])>> ELSE ll

\* mutant: the longitude-only mask is computed before Rule A is applied
CorrectCoordsMaskFirst(ll) ==
    IF MaskLonOnly(ll) THEN <<RuleA(ll)[1], Neg(RuleA(ll)[2])>> ELSE RuleA(ll)

\* the two corrections in the order of the code
CorrectCoords(ll) == RuleB(RuleA(ll))

(***************************************************************************)
(* DataFrame.merge(how="left", on=keys, suffixes=("", suffix))             *)
(***************************************************************************)
\* name of a right-hand column in the merged table: a column that is no key
\* and is in both tables gets the suffix
RightName(left, right, keys, suffix, k) ==
    IF k \in (left.cols \cap right.cols) \ keys THEN k \o suffix ELSE k

MergedCols(left, right, keys, suffix) ==
    left.cols \cup {RightName(left, right, keys, suffix, k) : k \in right.cols \ keys}

\* indices of the right rows whose key columns equal those of left row l
Matches(l, right, keys) ==
    {j \in 1..Len(right.rows) : \A k \in keys : right.rows[j][k] = l[k]}

\* one merged row: the left row with the right row's columns appended
JoinRow(left, right, keys, suffix, l, r) ==
    [c \in MergedCols(left, right, keys, suffix) |->
        IF c \in left.cols THEN l[c]
        ELSE r[CHOOSE k \in right.cols \ keys :
                   RightName(left, right, keys, suffix, k) = c]]

\* one merged row of a left row without a match: right columns are NaN
NullRow(left, right, keys, suffix, l) ==
    [c \in MergedCols(left, right, keys, suffix) |->
        IF c \in left.cols THEN l[c] ELSE Null]

\* the matching right rows of l, in the order of the right table
RECURSIVE MatchRows(_, _, _, _, _, _)
MatchRows(left, right, keys, suffix, l, j) ==
    IF j > Len(right.rows) THEN <<>>
    ELSE (IF j \in Matches(l, right, keys)
          THEN <<JoinRow(left, right, keys, suffix, l, right.rows[j])>>
          ELSE <<>>)
         \o MatchRows(left, right, keys, suffix, l, j + 1)

\* mutant: an inner join, a left row without a match is dropped
RowsOfInner(left, right, keys, suffix, l) ==
    MatchRows(left, right, keys, suffix, l, 1)

\* the merged rows one left row gives: one per match, or one with NaN
RowsOf(left, right, keys, suffix, l) ==
    IF Matches(l, right, keys) = {}
    THEN <<NullRow(left, right, keys, suffix, l)>>
    ELSE MatchRows(left, right, keys, suffix, l, 1)

RECURSIVE MergeFrom(_, _, _, _, _)
MergeFrom(left, right, keys, suffix, i) ==
    IF i > Len(left.rows) THEN <<>>
    ELSE RowsOf(left, right, keys, suffix, left.rows[i])
         \o MergeFrom(left, right, keys, suffix, i + 1)

MergeLeft(left, right, keys, suffix) ==
    Table(MergedCols(left, right, keys, suffix),
          MergeFrom(left, right, keys, suffix, 1))

(***************************************************************************)
(* The per-permit/year summary                                             *)
(***************************************************************************)
summary_group_cols ==
    {"permit_identifier", "collection_system_identifier",
     "collection_system_name", "collection_system_owner_type_desc",
     "collection_system_population", "year"}

AggCols ==
    {"sso_event_count", "sso_total_volume_gal", "sso_first_event", "sso_last_event"}

\* df_summary: the merged table with the parsed datetimes, volume and year
SummaryFrame(merged) ==
    LET n == Len(merged.rows)
        t1 == SetColumn(merged, "sso_start_dt",
                  [i \in 1..n |->
                      ToDatetime(merged.rows[i]["sewer_overflow_bypass_start_datetime"])])
        t2 == SetColumn(t1, "sso_end_dt",
                  [i \in 1..n |->
                      ToDatetime(t1.rows[i]["sewer_overflow_bypass_end_datetime"])])
        t3 == SetColumn(t2, "sso_volume_gal",
                  [i \in 1..n |->
                      ToNumeric(t2.rows[i]["sewer_overflow_bypass_discharge_volume_gallons"])])
    IN  SetColumn(t3, "year", [i \in 1..n |-> YearOf(t3.rows[i]["sso_start_dt"])])

GroupKey(r) == [c \in summary_group_cols |-> r[c]]

\* mutant: groupby with dropna=True, a row with NaN in a key column is left out
GroupedIdxDropNa(t) ==
    {i \in 1..Len(t.rows) : \A c \in summary_group_cols : ~IsNull(t.rows[i][c])}

\* groupby(summary_group_cols, dropna=False): every row is grouped
GroupedIdx(t) == {i \in 1..Len(t.rows) : TRUE}

\* the rows of the group of key k
GroupIdx(t, k) == {i \in GroupedIdx(t) : GroupKey(t.rows[i]) = k}

\* the keys of the groups, each once, in the order of their first row
RECURSIVE KeysFrom(_, _, _)
KeysFrom(t, i, seen) ==
    IF i > Len(t.rows) THEN <<>>
    ELSE IF i \in GroupedIdx(t) /\ GroupKey(t.rows[i]) \notin seen
         THEN <<GroupKey(t.rows[i])>>
              \o KeysFrom(t, i + 1, seen \cup {GroupKey(t.rows[i])})
         ELSE KeysFrom(t, i + 1, seen)

\* mutant: "count", the rows with an event key, repeated keys counted again
CountRows(t, idx, col) ==
    Num(Cardinality({i \in idx : ~IsNull(t.rows[i][col])}))

\* "nunique": the distinct values of the column in the group, NaN left out
NUnique(t, idx, col) ==
    Num(Cardinality({t.rows[i][col] : i \in idx} \ {Null}))

RECURSIVE SumNums(_, _, _)
SumNums(t, idx, col) ==
    IF idx = {} THEN 0
    ELSE LET i == CHOOSE j \in idx : TRUE
         IN  t.rows[i][col].num + SumNums(t, idx \ {i}, col)

\* mutant: a sum that a NaN in the group turns into NaN
SumPropagating(t, idx, col) ==
    IF \E i \in idx : IsNull(t.rows[i][col]) THEN Null
    ELSE Num(SumNums(t, idx, col))

\* "sum": NaN is skipped, the sum of no number is 0
SumSkipNa(t, idx, col) ==
    Num(SumNums(t, {i \in idx : ~IsNull(t.rows[i][col])}, col))

\* "min": NaT is skipped, NaT when the group has no timestamp
MinSkipNa(t, idx, col) ==
    LET vs == {t.rows[i][col] : i \in idx} \ {Null}
    IN  IF vs = {} THEN Null
        ELSE CHOOSE v \in vs : \A w \in vs : v.num <= w.num

\* "max": NaT is skipped, NaT when the group has no timestamp
MaxSkipNa(t, idx, col) ==
    LET vs == {t.rows[i][col] : i \in idx} \ {Null}
    IN  IF vs = {} THEN Null
        ELSE CHOOSE v \in vs : \A w \in vs : v.num >= w.num

\* one row of the summary: the key columns and the four aggregates
SummaryRow(t, k) ==
    [c \in summary_group_cols \cup AggCols |->
        CASE c \in summary_group_cols -> k[c]
          [] c = "sso_event_count" ->
                NUnique(t, GroupIdx(t, k), "sewer_overflow_bypass_event_key")
          [] c = "sso_total_volume_gal" ->
                SumSkipNa(t, GroupIdx(t, k), "sso_volume_gal")
          [] c = "sso_first_event" -> MinSkipNa(t, GroupIdx(t, k), "sso_start_dt")
          [] OTHER -> MaxSkipNa(t, GroupIdx(t, k), "sso_end_dt")]

\* groupby(...).agg(...).reset_index(); the rows are compared as a set, the
\* order groupby sorts them in is not modelled
Summarize(merged) ==
    LET t == SummaryFrame(merged)
        keys == KeysFrom(t, 1, {})
    IN  Table(summary_group_cols \cup AggCols,
              [g \in 1..Len(keys) |-> SummaryRow(t, keys[g])])

(***************************************************************************)
(* merge_sso_with_collection_system(df_coll, df_sso)                       *)
(***************************************************************************)
OutNames ==
    {"collection_system_permit_raw", "sewer_overflow_bypass_event_raw",
     "sso_events_with_collection_system", "sso_summary_by_permit_year"}

JoinCols == {"_permit_join", "_cs_join"}

\* the call raised KeyError: nothing is returned
Raised == [error |-> "KeyError", produced |-> {}, tables |-> [n \in OutNames |-> NoTable]]

\* the dict the call returns
Returned(coll_raw, sso_raw, merged, summary) ==
    [error |-> "none", produced |-> OutNames,
     tables |-> [n \in OutNames |->
        CASE n = "collection_system_permit_raw" -> coll_raw
          [] n = "sewer_overflow_bypass_event_raw" -> sso_raw
          [] n = "sso_events_with_collection_system" -> merged
          [] OTHER -> summary]]

\* frame["_permit_join"] = frame["permit_identifier"] normalized
WithPermitJoin(t) ==
    SetColumn(t, "_permit_join",
              [i \in 1..Len(t.rows) |-> Normalize(t.rows[i]["permit_identifier"])])

\* frame["_cs_join"] = frame["collection_system_identifier"] normalized
WithCsJoin(t) ==
    SetColumn(t, "_cs_join",
              [i \in 1..Len(t.rows) |->
                  Normalize(t.rows[i]["collection_system_identifier"])])

\* frame[col]: KeyError when the column is absent
Indexable(t, col) == col \in t.cols

\* mutant: the coordinate column is read as df_sso[col]
GetStrict(t, col) == col \in t.cols

\* df_sso.get(col): never raises, an absent column gives None
GetSucceeds(t, col) == TRUE

\* mutant: no copy is taken, the raw table is the frame the call writes to
AliasFrame(before, after) == after

\* frame.copy() at the start of the call: later writes do not reach the copy
CopyFrame(before, after) == before

\* the coordinate columns parsed and sign-corrected in place
WithCoords(t) ==
    LET t1 == SetColumn(t, "latitude_measure",
                  [i \in 1..Len(t.rows) |->
                      NumericColumn(t, "latitude_measure", t.rows[i])])
        t2 == SetColumn(t1, "longitude_measure",
                  [i \in 1..Len(t.rows) |->
                      NumericColumn(t1, "longitude_measure", t1.rows[i])])
        fix(r) == CorrectCoords(<<r["latitude_measure"], r["longitude_measure"]>>)
        t3 == [cols |-> t2.cols,
               rows |-> [i \in 1..Len(t2.rows) |->
                    [t2.rows[i] EXCEPT !["latitude_measure"] = fix(t2.rows[i])[1],
                                       !["longitude_measure"] = fix(t2.rows[i])[2]]]]
    IN  t3

\* the columns the summary reads from the merged table
SummaryReads ==
    (summary_group_cols \ {"year"})
    \cup {"sewer_overflow_bypass_start_datetime", "sewer_overflow_bypass_end_datetime",
          "sewer_overflow_bypass_discharge_volume_gallons",
          "sewer_overflow_bypass_event_key"}

\* the whole call on the caller's two frames: the frames as the call leaves
\* them (it writes its helper and coordinate columns into them) and what it
\* returns
MergeCall(coll, sso) ==
    LET abort(c, s) == [coll |-> c, sso |-> s, ret |-> Raised] IN
    IF ~Indexable(coll, "permit_identifier") THEN abort(coll, sso)
    ELSE LET coll1 == WithPermitJoin(coll) IN
    IF ~Indexable(sso, "permit_identifier") THEN abort(coll1, sso)
    ELSE LET sso1 == WithPermitJoin(sso) IN
    IF ~Indexable(coll1, "collection_system_identifier") THEN abort(coll1, sso1)
    ELSE LET coll2 == WithCsJoin(coll1) IN
    IF ~Indexable(sso1, "collection_system_identifier") THEN abort(coll2, sso1)
    ELSE LET sso2 == WithCsJoin(sso1) IN
    IF ~(GetSucceeds(sso2, "latitude_measure") /\ GetSucceeds(sso2, "longitude_measure"))
    THEN abort(coll2, sso2)
    ELSE LET sso3 == WithCoords(sso2)
             merged == DropColumns(MergeLeft(sso3, coll2, JoinCols, "_coll"), JoinCols)
             coll_raw == DropColumns(CopyFrame(coll, coll2), JoinCols)
             sso_raw == DropColumns(CopyFrame(sso, sso3), JoinCols)
         IN
    IF ~(SummaryReads \subseteq merged.cols) THEN abort(coll2, sso3)
    ELSE [coll |-> coll2, sso |-> sso3,
          ret |-> Returned(coll_raw, sso_raw, merged, Summarize(merged))]


(***************************************************************************)
(* The state machine: the caller holds two frames and calls                *)
(* merge_sso_with_collection_system on them, possibly again on the same    *)
(* objects.                                                                *)
(***************************************************************************)
MaxCalls == 2

merge_sso_with_collection_system ==
    /\ Len(returned) < MaxCalls
    /\ LET r == MergeCall(df_coll, df_sso)
       IN  /\ df_coll' = r.coll
           /\ df_sso' = r.sso
           /\ passed' = Append(passed, [coll |-> df_coll, sso |-> df_sso])
           /\ returned' = Append(returned, r.ret)

Next == merge_sso_with_collection_system

(***************************************************************************)
(* Input tables, as load_sso_tables returns them                           *)
(***************************************************************************)
PermitCols ==
    {"permit_identifier", "collection_system_identifier", "collection_system_name",
     "collection_system_owner_type_desc", "collection_system_population"}

EventCols ==
    {"permit_identifier", "collection_system_identifier",
     "sewer_overflow_bypass_event_key", "sewer_overflow_bypass_start_datetime",
     "sewer_overflow_bypass_end_datetime",
     "sewer_overflow_bypass_discharge_volume_gallons",
     "latitude_measure", "longitude_measure"}

PermitRow(pid, cs, name, owner, pop) ==
    [c \in PermitCols |->
        CASE c = "permit_identifier" -> pid
          [] c = "collection_system_identifier" -> cs
          [] c = "collection_system_name" -> name
          [] c = "collection_system_owner_type_desc" -> owner
          [] OTHER -> pop]

EventRow(pid, cs, key, start, end, vol, lat, lon) ==
    [c \in EventCols |->
        CASE c = "permit_identifier" -> pid
          [] c = "collection_system_identifier" -> cs
          [] c = "sewer_overflow_bypass_event_key" -> key
          [] c = "sewer_overflow_bypass_start_datetime" -> start
          [] c = "sewer_overflow_bypass_end_datetime" -> end
          [] c = "sewer_overflow_bypass_discharge_volume_gallons" -> vol
          [] c = "latitude_measure" -> lat
          [] OTHER -> lon]

\* all sequences of at most n elements of S
SeqsUpTo(S, n) == UNION {[1..k -> S] : k \in 0..n}

Jun2021 == Str(<<"2", "0", "2", "1", "-", "0", "6">>)

Jul2021 == Str(<<"2", "0", "2", "1", "-", "0", "7">>)

Jan2022 == Str(<<"2", "0", "2", "2", "-", "0", "1">>)

BadText == Str(<<"x">>)

\* the i-th event key and the i-th collection system name
KeyNo(i) == Str(<<"k", DigitChars[i + 1]>>)

NameNo(i) == Str(<<"n", DigitChars[i + 1]>>)

Municipal == Str(<<"m">>)

InitLog == passed = <<>> /\ returned = <<>>

\* --- identifiers vary: case, surrounding blanks, numbers, missing values ---
MaxEvents == 2

MaxPermits == 2

EventPids == {Null, Str(<<" ", "a", " ">>)}

EventCs == {Str(<<"c">>), Num(7)}

PermitPids == {Null, Str(<<"A">>)}

PermitCs == {Str(<<"C", " ">>), Str(<<"7">>)}

\* the one permit the other families join to
PermitA(name, pop) == PermitRow(Str(<<"A">>), Str(<<"C">>), name, Municipal, pop)

InitJoin ==
    /\ df_sso \in
         {Table(EventCols,
                [i \in 1..Len(f) |->
                    EventRow(f[i][1], f[i][2], KeyNo(i), Jun2021, Jul2021,
                             Num(1000), Num(40), Num(-88))]) :
            f \in SeqsUpTo(EventPids \X EventCs, MaxEvents)}
    /\ df_coll \in
         {Table(PermitCols,
                [i \in 1..Len(f) |->
                    PermitRow(f[i][1], f[i][2], NameNo(i), Municipal, Num(500))]) :
            f \in SeqsUpTo(PermitPids \X PermitCs, MaxPermits)}
    /\ InitLog

SpecJoin == InitJoin /\ [][Next]_vars

\* --- coordinates vary: signs, the ends of the band, text, missing values ---
MaxCoordRows == 1

Lats ==
    {Null, Str(<<"-", "4", "1">>), Num(-41), Num(-10), Num(0), Num(13), Num(40)}

Lons ==
    {Null, BadText, Num(-110), Num(-98), Num(59), Num(60), Num(75), Num(88),
     Num(98), Num(110), Num(111), Num(144)}

InitCoord ==
    /\ df_sso \in
         {Table(EventCols,
                [i \in 1..Len(f) |->
                    EventRow(Str(<<"a">>), Str(<<"c">>), KeyNo(i), Jun2021, Jul2021,
                             Num(1000), f[i][1], f[i][2])]) :
            f \in SeqsUpTo(Lats \X Lons, MaxCoordRows)}
    /\ df_coll = Table(PermitCols, <<PermitA(NameNo(1), Num(500))>>)
    /\ InitLog

SpecCoord == InitCoord /\ [][Next]_vars

\* --- event keys vary: repeated and missing keys, two years, join fan-out ---
MaxKeyRows == 3

EventKeys == {Null, KeyNo(1), KeyNo(2)}

Starts == {Jun2021, Jan2022}

InitKeys ==
    /\ df_sso \in
         {Table(EventCols,
                [i \in 1..Len(f) |->
                    EventRow(Str(<<"a">>), Str(<<"c">>), f[i][1], f[i][2], Jul2021,
                             Num(1000), Num(40), Num(-88))]) :
            f \in SeqsUpTo(EventKeys \X Starts, MaxKeyRows)}
    /\ df_coll \in
         {Table(PermitCols, <<PermitA(NameNo(1), Num(500))>>),
          Table(PermitCols, <<PermitA(NameNo(1), Num(500)), PermitA(NameNo(1), Num(500))>>)}
    /\ InitLog

SpecKeys == InitKeys /\ [][Next]_vars

\* --- volumes vary: numbers, number text, other text, missing values ---
MaxVolRows == 3

Volumes == {Null, BadText, Num(1000), Str(<<"2", "0", "0", "0">>)}

InitVol ==
    /\ df_sso \in
         {Table(EventCols,
                [i \in 1..Len(f) |->
                    EventRow(Str(<<"a">>), Str(<<"c">>), KeyNo(i), f[i][2], Jul2021,
                             f[i][1], Num(40), Num(-88))]) :
            f \in SeqsUpTo(Volumes \X Starts, MaxVolRows)}
    /\ df_coll = Table(PermitCols, <<PermitA(NameNo(1), Num(500))>>)
    /\ InitLog

SpecVol == InitVol /\ [][Next]_vars

\* --- group columns vary: missing permit ids, dates, names, populations ---
MaxGroupRows == 2

GroupPids == {Null, Str(<<"a">>), Str(<<"b">>)}

GroupStarts == {Null, BadText, Jun2021}

InitGroup ==
    /\ df_sso \in
         {Table(EventCols,
                [i \in 1..Len(f) |->
                    EventRow(f[i][1], Str(<<"c">>), KeyNo(i), f[i][2], Jul2021,
                             Num(1000), Num(40), Num(-88))]) :
            f \in SeqsUpTo(GroupPids \X GroupStarts, MaxGroupRows)}
    /\ df_coll \in
         {Table(PermitCols, <<PermitA(name, pop)>>) :
            name \in {Null, NameNo(1)}, pop \in {Null, Num(500)}}
    /\ InitLog

SpecGroup == InitGroup /\ [][Next]_vars

\* --- columns vary: identifier and coordinate columns may be absent ---
MaxColRows == 1

InitCols ==
    /\ df_sso \in
         {DropColumns(Table(EventCols,
                    [i \in 1..Len(f) |->
                        EventRow(Str(<<"a">>), Str(<<"c">>), KeyNo(i), Jun2021, Jul2021,
                                 Num(1000), f[i][1], f[i][2])]), cs) :
            f \in SeqsUpTo({Num(-41), Num(40)} \X {Num(88), Num(98)}, MaxColRows),
            cs \in SUBSET {"permit_identifier", "collection_system_identifier",
                           "latitude_measure", "longitude_measure"}}
    /\ df_coll \in
         {DropColumns(Table(PermitCols, <<PermitA(NameNo(1), Num(500))>>), cs) :
            cs \in SUBSET {"permit_identifier", "collection_system_identifier"}}
    /\ InitLog

SpecCols == InitCols /\ [][Next]_vars

(***************************************************************************)
(* Properties                                                              *)
(***************************************************************************)
CallNos == 1..Len(returned)

Ok(k) == returned[k].error = "none"

RawColl(k) == returned[k].tables["collection_system_permit_raw"]

RawSso(k) == returned[k].tables["sewer_overflow_bypass_event_raw"]

Merged(k) == returned[k].tables["sso_events_with_collection_system"]

Summary(k) == returned[k].tables["sso_summary_by_permit_year"]

RowNos(t) == 1..Len(t.rows)

\* the columns of the merged table that come from the permit table
PermitSide ==
    {"permit_identifier_coll", "collection_system_identifier_coll",
     "collection_system_name", "collection_system_owner_type_desc",
     "collection_system_population"}

CoordCols == {"latitude_measure", "longitude_measure"}

\* an identifier cast to text, trimmed and uppercased
CanonId(c) == StrUpper(StrStrip(AsTypeStr(c)))

SameKeyPair(e, p) ==
    /\ CanonId(e["permit_identifier"]) = CanonId(p["permit_identifier"])
    /\ CanonId(e["collection_system_identifier"]) = CanonId(p["collection_system_identifier"])

\* the merged rows of call k that carry the event key of event row e
HitsOf(k, e) ==
    {m \in RowNos(Merged(k)) :
        Merged(k).rows[m]["sewer_overflow_bypass_event_key"]
            = e["sewer_overflow_bypass_event_key"]}

NoPermitMatches(k, e) ==
    \A j \in RowNos(passed[k].coll) : ~SameKeyPair(e, passed[k].coll.rows[j])

\* C1: the merged table has exactly as many rows as the event table passed
\* in, whatever the permit table holds.
C1_JoinCardinality ==
    \A k \in CallNos : Ok(k) => NRows(Merged(k)) = NRows(passed[k].sso)

\* C2: every event row is in the merged table, and an event row whose
\* normalized key pair matches no permit row is there exactly once, with its
\* event columns kept and every permit-side column null.
C2_LeftJoinPreservation ==
    \A k \in CallNos : Ok(k) =>
        /\ PermitSide \subseteq Merged(k).cols
        /\ \A i \in RowNos(passed[k].sso) :
             LET e == passed[k].sso.rows[i] IN
             /\ HitsOf(k, e) # {}
             /\ NoPermitMatches(k, e) =>
                  /\ Cardinality(HitsOf(k, e)) = 1
                  /\ \A m \in HitsOf(k, e) :
                       /\ \A c \in EventCols \ CoordCols : Merged(k).rows[m][c] = e[c]
                       /\ CoordCols \subseteq Merged(k).cols
                       /\ \A c \in PermitSide : Merged(k).rows[m][c] = Null

\* C2 witness: a call with a non-empty permit table returned an event row
\* that matches no permit, with null permit columns
C2_Witness ==
    \E k \in CallNos : Ok(k) /\ NRows(passed[k].coll) > 0 /\
        \E i \in RowNos(passed[k].sso) :
            /\ NoPermitMatches(k, passed[k].sso.rows[i])
            /\ \E m \in HitsOf(k, passed[k].sso.rows[i]) :
                 Merged(k).rows[m]["collection_system_name"] = Null

\* event row e and permit row p are joined in the merged table of call k
Joined(k, e, p) ==
    \E m \in HitsOf(k, e) :
        /\ Merged(k).rows[m]["collection_system_name"] = p["collection_system_name"]
        /\ Merged(k).rows[m]["permit_identifier_coll"] = p["permit_identifier"]
        /\ Merged(k).rows[m]["collection_system_identifier_coll"]
             = p["collection_system_identifier"]

\* C3: an event row and a permit row are joined if and only if their permit
\* identifiers, and their collection system identifiers, are equal after the
\* cast to text, trimming and uppercasing.
C3_KeyNormalization ==
    \A k \in CallNos : Ok(k) =>
        \A i \in RowNos(passed[k].sso) : \A j \in RowNos(passed[k].coll) :
            Joined(k, passed[k].sso.rows[i], passed[k].coll.rows[j])
                <=> SameKeyPair(passed[k].sso.rows[i], passed[k].coll.rows[j])

\* C3 witness: the event ' a ' / 7 is joined to the permit 'A' / '7'
C3_Witness ==
    \E k \in CallNos : Ok(k) /\
        \E i \in RowNos(passed[k].sso) : \E j \in RowNos(passed[k].coll) :
            /\ passed[k].sso.rows[i]["permit_identifier"] = Str(<<" ", "a", " ">>)
            /\ passed[k].coll.rows[j]["permit_identifier"] = Str(<<"A">>)
            /\ passed[k].sso.rows[i]["collection_system_identifier"] = Num(7)
            /\ passed[k].coll.rows[j]["collection_system_identifier"] = Str(<<"7">>)
            /\ Joined(k, passed[k].sso.rows[i], passed[k].coll.rows[j])

LatLon(r) == <<r["latitude_measure"], r["longitude_measure"]>>

InBand(c) == c.kind = "num" /\ c.num >= 60 /\ c.num <= 110

\* what the two rules give for parsed coordinates, by the sign of the latitude
ExpectedCoords(lat, lon) ==
    CASE lat.kind # "num" -> <<lat, lon>>
      [] lat.kind = "num" /\ lat.num < 0 ->
            <<Num(-lat.num), IF InBand(Neg(lon)) THEN lon ELSE Neg(lon)>>
      [] OTHER -> <<lat, IF InBand(lon) THEN Neg(lon) ELSE lon>>

\* the merged rows of call k have the coordinates out wherever the event row
\* passed in has the coordinates in
MapsCoords(k, in, out) ==
    \A i \in RowNos(passed[k].sso) :
        LatLon(passed[k].sso.rows[i]) = in =>
            \A m \in HitsOf(k, passed[k].sso.rows[i]) : LatLon(Merged(k).rows[m]) = out

\* C4: the merged coordinates are the parsed coordinates after Rule A (a
\* negative latitude flips both signs) and then Rule B on the result (latitude
\* >= 0 and longitude in [60, 110] flips the longitude); a missing latitude
\* changes nothing; the examples of the specification come out as stated.
C4_CoordinateCorrection ==
    \A k \in CallNos : Ok(k) =>
        /\ \A i \in RowNos(passed[k].sso) :
             LET e == passed[k].sso.rows[i] IN
             /\ HitsOf(k, e) # {}
             /\ \A m \in HitsOf(k, e) :
                  LatLon(Merged(k).rows[m])
                      = ExpectedCoords(ToNumeric(e["latitude_measure"]),
                                       ToNumeric(e["longitude_measure"]))
        /\ MapsCoords(k, <<Num(-41), Num(98)>>, <<Num(41), Num(-98)>>)
        /\ MapsCoords(k, <<Num(40), Num(88)>>, <<Num(40), Num(-88)>>)
        /\ MapsCoords(k, <<Num(13), Num(144)>>, <<Num(13), Num(144)>>)
        /\ MapsCoords(k, <<Num(-10), Num(75)>>, <<Num(10), Num(-75)>>)
        /\ MapsCoords(k, <<Num(40), Num(60)>>, <<Num(40), Num(-60)>>)
        /\ MapsCoords(k, <<Num(40), Num(110)>>, <<Num(40), Num(-110)>>)
        /\ MapsCoords(k, <<Num(40), Num(59)>>, <<Num(40), Num(59)>>)
        /\ MapsCoords(k, <<Num(40), Num(111)>>, <<Num(40), Num(111)>>)
        /\ MapsCoords(k, <<Num(-41), Num(-98)>>, <<Num(41), Num(-98)>>)
        /\ MapsCoords(k, <<Null, Num(88)>>, <<Null, Num(88)>>)
        /\ MapsCoords(k, <<Num(40), Null>>, <<Num(40), Null>>)

\* C4 witness: an event at (-41, -98) came out at (41, -98): Rule A gave
\* (41, 98) and Rule B flipped the longitude again
C4_Witness ==
    \E k \in CallNos : Ok(k) /\
        \E i \in RowNos(passed[k].sso) :
            /\ LatLon(passed[k].sso.rows[i]) = <<Num(-41), Num(-98)>>
            /\ \E m \in HitsOf(k, passed[k].sso.rows[i]) :
                 LatLon(Merged(k).rows[m]) = <<Num(41), Num(-98)>>

\* C5: the two raw tables returned have the columns and values of the two
\* tables passed in to the call, the helper columns _permit_join and _cs_join
\* aside, which they never contain; the raw event table has the coordinates
\* as passed in.
C5_RawPassthrough ==
    \A k \in CallNos : Ok(k) =>
        /\ RawColl(k) = DropColumns(passed[k].coll, JoinCols)
        /\ RawSso(k) = DropColumns(passed[k].sso, JoinCols)
        /\ RawColl(k).cols \cap JoinCols = {}
        /\ RawSso(k).cols \cap JoinCols = {}
        /\ passed[k].coll.cols \cap JoinCols = {} => RawColl(k) = passed[k].coll
        /\ passed[k].sso.cols \cap JoinCols = {} => RawSso(k) = passed[k].sso

\* C5 witness: a call on fresh tables returned the raw event table with
\* (-41, 98) as passed in while the merged table has (41, -98)
C5_Witness ==
    \E k \in CallNos : Ok(k) /\ passed[k].sso.cols \cap JoinCols = {} /\
        \E i \in RowNos(RawSso(k)) :
            /\ RawSso(k).rows[i] = passed[k].sso.rows[i]
            /\ LatLon(RawSso(k).rows[i]) = <<Num(-41), Num(98)>>
            /\ \E m \in HitsOf(k, RawSso(k).rows[i]) :
                 LatLon(Merged(k).rows[m]) = <<Num(41), Num(-98)>>

SameRowSet(t, u) == t.cols = u.cols /\ RowSet(t) = RowSet(u)

\* C9: a second call with the same two table objects returns, for each of the
\* four tables, the same set of rows as the first call.
C9_Idempotence ==
    (Len(returned) >= 2 /\ Ok(1) /\ Ok(2)) =>
        \A n \in OutNames : SameRowSet(returned[1].tables[n], returned[2].tables[n])

\* the six grouping values of a merged row; the year is that of its parsed
\* start datetime
SixKey(m) ==
    [c \in summary_group_cols |->
        IF c = "year"
        THEN YearOf(ToDatetime(m["sewer_overflow_bypass_start_datetime"]))
        ELSE m[c]]

\* the six grouping values of a summary row
KeyOfSummary(s) == [c \in summary_group_cols |-> s[c]]

\* the merged rows of call k that belong to the group of summary row s
GroupOf(k, s) ==
    {m \in RowNos(Merged(k)) : SixKey(Merged(k).rows[m]) = KeyOfSummary(s)}

\* C6: sso_event_count of a summary row is the number of distinct event keys
\* (missing keys aside) among the merged rows of its group.
C6_DistinctEventCount ==
    \A k \in CallNos : Ok(k) =>
        \A g \in RowNos(Summary(k)) :
            LET s == Summary(k).rows[g]
                keys == {Merged(k).rows[m]["sewer_overflow_bypass_event_key"] :
                            m \in GroupOf(k, s)}
            IN  s["sso_event_count"] = Num(Cardinality(keys \ {Null}))

\* C6 witness: a group in which one event key occurs on two rows reports
\* a count of 1
C6_Witness ==
    \E k \in CallNos : Ok(k) /\
        \E g \in RowNos(Summary(k)) :
            /\ Summary(k).rows[g]["sso_event_count"] = Num(1)
            /\ \E m1, m2 \in GroupOf(k, Summary(k).rows[g]) :
                 /\ m1 # m2
                 /\ Merged(k).rows[m1]["sewer_overflow_bypass_event_key"] = KeyNo(1)
                 /\ Merged(k).rows[m2]["sewer_overflow_bypass_event_key"] = KeyNo(1)

\* the parsed volume of a merged row, 0 when it is missing or no number
VolumeOrZero(m) ==
    LET v == ToNumeric(m["sewer_overflow_bypass_discharge_volume_gallons"])
    IN  IF v.kind = "num" THEN v.num ELSE 0

RECURSIVE TotalOf(_, _, _)
TotalOf(t, rows, i) ==
    IF i > Len(t.rows) THEN 0
    ELSE (IF i \in rows THEN VolumeOrZero(t.rows[i]) ELSE 0) + TotalOf(t, rows, i + 1)

\* C7: sso_total_volume_gal of a summary row is the sum of the parsed volumes
\* of its group, a missing or unparsable volume counting 0; it is never null.
C7_NullSkippingSum ==
    \A k \in CallNos : Ok(k) =>
        \A g \in RowNos(Summary(k)) :
            /\ Summary(k).rows[g]["sso_total_volume_gal"]
                 = Num(TotalOf(Merged(k), GroupOf(k, Summary(k).rows[g]), 1))
            /\ Summary(k).rows[g]["sso_total_volume_gal"] # Null

\* C7 witness: a group with the volumes 1000, null and 2000 sums to 3000
C7_Witness ==
    \E k \in CallNos : Ok(k) /\
        \E g \in RowNos(Summary(k)) :
            /\ Summary(k).rows[g]["sso_total_volume_gal"] = Num(3000)
            /\ Cardinality(GroupOf(k, Summary(k).rows[g])) = 3
            /\ \E m \in GroupOf(k, Summary(k).rows[g]) :
                 Merged(k).rows[m]["sewer_overflow_bypass_discharge_volume_gallons"] = Null

\* C8: the summary has exactly one row per distinct six-column tuple of the
\* merged table, null counting as a value; every merged row belongs to
\* exactly one summary row.
C8_GroupingWithNulls ==
    \A k \in CallNos : Ok(k) =>
        /\ \A m \in RowNos(Merged(k)) :
             Cardinality({g \in RowNos(Summary(k)) :
                 KeyOfSummary(Summary(k).rows[g]) = SixKey(Merged(k).rows[m])}) = 1
        /\ \A g \in RowNos(Summary(k)) : GroupOf(k, Summary(k).rows[g]) # {}
        /\ NRows(Summary(k))
             = Cardinality({SixKey(Merged(k).rows[m]) : m \in RowNos(Merged(k))})

\* C8 witness: two merged rows with a null year and null permit attributes
\* form one group of the summary
C8_Witness ==
    \E k \in CallNos : Ok(k) /\
        \E g \in RowNos(Summary(k)) :
            /\ Summary(k).rows[g]["year"] = Null
            /\ Summary(k).rows[g]["collection_system_population"] = Null
            /\ Cardinality(GroupOf(k, Summary(k).rows[g])) = 2

\* the columns the claim names that are absent from the tables passed to call k
AbsentIds(k) ==
    ({"permit_identifier", "collection_system_identifier"} \ passed[k].coll.cols)
    \cup ({"permit_identifier", "collection_system_identifier"} \ passed[k].sso.cols)

AbsentCoords(k) == CoordCols \ passed[k].sso.cols

Aborted(k) == returned[k].error # "none" /\ returned[k].produced = {}

\* C10 as stated: a call with an identifier column or a coordinate column
\* absent aborts and produces no table.
C10_MissingColumnAborts ==
    \A k \in CallNos : (AbsentIds(k) # {} \/ AbsentCoords(k) # {}) => Aborted(k)

\* C10 amended: a call with an identifier column absent aborts and produces
\* no table; a call with all identifier columns and without a coordinate
\* column completes, the absent coordinate column being all null in the
\* merged table and still absent from the raw event table.
C10_MissingIdentifierAborts ==
    \A k \in CallNos :
        /\ AbsentIds(k) # {} => Aborted(k)
        /\ AbsentIds(k) = {} =>
             /\ Ok(k) /\ returned[k].produced = OutNames
             /\ \A c \in AbsentCoords(k) :
                  /\ c \in Merged(k).cols
                  /\ \A m \in RowNos(Merged(k)) : Merged(k).rows[m][c] = Null
                  /\ c \notin RawSso(k).cols

\* C10 witness: a call without latitude_measure completed with a merged row
C10_Witness ==
    \E k \in CallNos :
        /\ "latitude_measure" \in AbsentCoords(k)
        /\ Ok(k)
        /\ NRows(Merged(k)) > 0
        /\ \A m \in RowNos(Merged(k)) : Merged(k).rows[m]["latitude_measure"] = Null

====
